---- MODULE Spec2Model ----
(***************************************************************************)
(* QRmlUI::QuakeFileInterface (src/src/internal/quake_file_interface.cpp). *)
(*                                                                         *)
(* The file interface is a thin layer over C stdio: a Rml::FileHandle is   *)
(* the FILE* that fopen returned, cast to an integer.  The state is the    *)
(* engine configuration Open reads (com_gamedir, com_basedir, the string   *)
(* COM_GetGameNames(0) returns), the filesystem fopen looks at, and the    *)
(* table of open stdio streams with their cursors.                         *)
(*                                                                         *)
(* Strings are sequences of one-character strings, so that concatenation,  *)
(* std::string::find and std::string::substr are computed as the code      *)
(* computes them and two candidates may spell the same physical path.      *)
(***************************************************************************)
EXTENDS Integers, Sequences, FiniteSets, TLC

VARIABLES
    com_gamedir,   \* char com_gamedir[]: the mod directory, <<>> when not set
    com_basedir,   \* char com_basedir[]: the base directory, <<>> when not set
    game_names,    \* what COM_GetGameNames(0) returns: NULL or a string
    files,         \* the physical paths that exist (fopen(p, "rb") succeeds)
    streams,       \* FILE objects: address -> [file, pos] or NoStream
    held,          \* handles Open returned that the caller has not closed
    paks,          \* the pak containers that hold the asset as an entry
    last           \* the last call: its arguments, its result, what it probed

vars == <<com_gamedir, com_basedir, game_names, files, streams, held, paks,
          last>>

----------------------------------------------------------------------------
(* Bounds of the model *)

\* FILE objects that can be open at once (addresses 1..MaxHandles).
MaxHandles == 2
\* Largest byte count passed to Read and largest |offset| passed to Seek.
MaxArg == 2
\* Largest stream position explored (fseek may move past the end of file).
MaxPos == 2

----------------------------------------------------------------------------
(* Values *)

\* a null pointer where a string is expected: no string, <<>> is the empty one
NULL == <<"NULL">>
\* the table entry of an address that holds no FILE object
NoStream == [file |-> NULL, pos |-> 0]
\* std::string::npos is size_t(-1)
Npos == -1
\* <cstdio> origins
SEEK_SET == 0
SEEK_CUR == 1
SEEK_END == 2

\* the origins the UI library passes to Seek
Origins == {SEEK_SET, SEEK_CUR, SEEK_END}

Min(a, b) == IF a < b THEN a ELSE b
Max(a, b) == IF a > b THEN a ELSE b

\* The logical path the UI library asks for.
LogicalPath == <<"x">>

Slash == <<"/">>

\* The configurations explored: every combination of set / not set, a mod
\* directory that is or is not one of basedir's game directories, and game
\* lists with leading, trailing and doubled separators.
GameDirs == { <<>>, <<"m">>, <<"b", "/", "g">> }
BaseDirs == { <<>>, <<"b">> }
GameLists == { NULL, <<>>, <<"g">>, <<"g", ";", "h">>, <<";", "h">>,
               <<"h", ";", ";", "g", ";">> }

\* Every physical path a candidate can spell, and the bytes stored there.
AllFiles == { <<"m", "/", "x">>, <<"b", "/", "g", "/", "x">>,
              <<"b", "/", "h", "/", "x">>, <<"b", "/", "x">>, <<"x">> }

FileData(p) ==
    CASE p = <<"m", "/", "x">> -> <<"M", "D">>
      [] p = <<"b", "/", "g", "/", "x">> -> <<"G">>
      [] p = <<"b", "/", "h", "/", "x">> -> <<"H", "H">>
      [] p = <<"b", "/", "x">> -> <<"B", "S">>
      [] OTHER -> <<"C">>

\* The pak containers of the game directories ("game dirs, pak files" in
\* the search order of quake_file_interface.h): a container is a file of
\* its own, and the asset is an entry of it, not a path fopen can open.
PakFiles == { <<"b", "/", "g", "/", "p">> }
Addrs == 1..MaxHandles

----------------------------------------------------------------------------
(* std::string and stdio primitives *)

\* game_list.find(';', pos): index (0-based) of the first ';' at or after pos
Find(s, c, pos) ==
    LET hits == { i \in pos..(Len(s) - 1) : s[i + 1] = c }
    IN  IF hits = {} THEN Npos
        ELSE CHOOSE i \in hits : \A j \in hits : i <= j

\* game_list.substr(pos, n): n is a size_t, a negative n stands for the
\* wrapped value npos - pos, which substr clips to the end of the string
Substr(s, pos, n) ==
    LET cnt == IF n < 0 \/ n > Len(s) - pos THEN Len(s) - pos ELSE n
    IN  SubSeq(s, pos + 1, pos + cnt)

\* fopen(p, "rb") != NULL
Exists(fs, p) == p \in fs

\* The size of the file a stream was opened on.
FileSize(file) == Len(FileData(file))

\* Fclose releasing nothing.
FcloseLeak(st, h) == st

\* Fclose keyed by the path: every stream on the same file is released.
FcloseSameFile(st, h) ==
    [a \in DOMAIN st |-> IF st[a].file = st[h].file THEN NoStream ELSE st[a]]

\* fclose(f): the FILE object at address h is released
Fclose(st, h) == [st EXCEPT ![h] = NoStream]

\* Fseek taking every origin for the start of the file.
FseekFromStart(s, offset, origin) ==
    IF origin \notin {SEEK_SET, SEEK_CUR, SEEK_END} \/ offset < 0
    THEN [rc |-> -1, pos |-> s.pos]
    ELSE [rc |-> 0, pos |-> offset]

\* fseek(f, offset, origin) on a regular file: the new position is offset
\* from the start, the cursor or the end; a negative result or an unknown
\* origin is EINVAL (-1, cursor unchanged); a position past the end is valid
Fseek(s, offset, origin) ==
    LET base == CASE origin = SEEK_SET -> 0
                  [] origin = SEEK_CUR -> s.pos
                  [] origin = SEEK_END -> FileSize(s.file)
                  [] OTHER -> -1
        target == base + offset
    IN  IF origin \notin {SEEK_SET, SEEK_CUR, SEEK_END} \/ target < 0
        THEN [rc |-> -1, pos |-> s.pos]
        ELSE [rc |-> 0, pos |-> target]

\* fread(buffer, 1, size, f): the bytes from the cursor to the end of the
\* file, at most size of them; the cursor moves by the count transferred
Fread(s, size) ==
    LET n == Min(size, Max(0, FileSize(s.file) - s.pos))
    IN  [n |-> n, buf |-> SubSeq(FileData(s.file), s.pos + 1, s.pos + n),
         pos |-> s.pos + n]

\* ftell(f)
Ftell(s) == s.pos

----------------------------------------------------------------------------
(* QuakeFileInterface::Open *)

\* The state of one run of Open: the paths fopen was called on, the paths
\* it opened, the path of the FILE* returned (NULL while none is), and the
\* values of pos the game-name loop started its iterations with.
Entry == [probed |-> <<>>, opened |-> <<>>, ret |-> NULL, scan |-> <<>>]

\* Probe with the return after a successful fopen left out: the scan goes
\* on and every later candidate that exists is opened too.
ProbeNoReturn(r, p, fs) ==
    IF Exists(fs, p)
    THEN [r EXCEPT !.probed = Append(@, p), !.opened = Append(@, p),
                   !.ret = IF r.ret = NULL THEN p ELSE r.ret]
    ELSE [r EXCEPT !.probed = Append(@, p)]

\* FILE* f = fopen(p, "rb"); if (f) return f;   (nothing runs after a return)
Probe(r, p, fs) ==
    IF r.ret # NULL THEN r
    ELSE IF Exists(fs, p)
         THEN [r EXCEPT !.probed = Append(@, p), !.opened = Append(@, p),
                        !.ret = p]
         ELSE [r EXCEPT !.probed = Append(@, p)]

\* GameLoop without the test of game.empty(): an empty segment is probed
\* as basedir + "//" + path.
RECURSIVE GameLoopProbesEmpty(_, _, _, _, _)
GameLoopProbesEmpty(r, game_list, pos, path, fs) ==
    IF r.ret # NULL \/ ~(pos < Len(game_list)) THEN r
    ELSE LET sep == Find(game_list, ";", pos)
             game == Substr(game_list, pos, sep - pos)
             mod_path == com_basedir \o Slash \o game \o Slash \o path
             r1 == [r EXCEPT !.scan = Append(@, pos)]
             r2 == Probe(r1, mod_path, fs)
         IN  IF r2.ret # NULL \/ sep = Npos THEN r2
             ELSE GameLoopProbesEmpty(r2, game_list, sep + 1, path, fs)

\* GameLoop advancing by one character, pos = pos + 1, instead of past the
\* separator found: a segment is scanned once per character.
RECURSIVE GameLoopStepsOne(_, _, _, _, _)
GameLoopStepsOne(r, game_list, pos, path, fs) ==
    IF r.ret # NULL \/ ~(pos < Len(game_list)) THEN r
    ELSE LET sep == Find(game_list, ";", pos)
             game == Substr(game_list, pos, sep - pos)
             mod_path == com_basedir \o Slash \o game \o Slash \o path
             r1 == [r EXCEPT !.scan = Append(@, pos)]
             r2 == IF game # <<>> THEN Probe(r1, mod_path, fs) ELSE r1
         IN  IF r2.ret # NULL \/ sep = Npos THEN r2
             ELSE GameLoopStepsOne(r2, game_list, pos + 1, path, fs)

\* the while loop over game_list, entered with the scan position pos
RECURSIVE GameLoop(_, _, _, _, _)
GameLoop(r, game_list, pos, path, fs) ==
    IF r.ret # NULL \/ ~(pos < Len(game_list)) THEN r
    ELSE LET sep == Find(game_list, ";", pos)
             game == Substr(game_list, pos, sep - pos)
             mod_path == com_basedir \o Slash \o game \o Slash \o path
             r1 == [r EXCEPT !.scan = Append(@, pos)]
             r2 == IF game # <<>> THEN Probe(r1, mod_path, fs) ELSE r1
         IN  IF r2.ret # NULL \/ sep = Npos THEN r2
             ELSE GameLoop(r2, game_list, sep + 1, path, fs)

\* Resolve with the base directory tried before the game directories.
ResolveBaseFirst(path, fs) ==
    LET r1 == IF com_gamedir # <<>>
              THEN Probe(Entry, com_gamedir \o Slash \o path, fs)
              ELSE Entry
        r2 == IF com_basedir # <<>>
              THEN Probe(r1, com_basedir \o Slash \o path, fs)
              ELSE r1
        r3 == IF com_basedir # <<>> /\ game_names # NULL /\ game_names # <<>>
              THEN GameLoop(r2, game_names, 0, path, fs)
              ELSE r2
    IN  Probe(r3, path, fs)

\* Resolve with the test of com_gamedir inverted: the mod directory is
\* tried only when it is empty, that is never under a configured one.
ResolveNoMod(path, fs) ==
    LET r1 == IF com_gamedir = <<>>
              THEN Probe(Entry, com_gamedir \o Slash \o path, fs)
              ELSE Entry
        r2 == IF com_basedir # <<>> /\ game_names # NULL /\ game_names # <<>>
              THEN GameLoop(r1, game_names, 0, path, fs)
              ELSE r1
        r3 == IF com_basedir # <<>>
              THEN Probe(r2, com_basedir \o Slash \o path, fs)
              ELSE r2
    IN  Probe(r3, path, fs)

\* Resolve with the path as is tried first instead of last.
ResolveAsIsFirst(path, fs) ==
    LET r0 == Probe(Entry, path, fs)
        r1 == IF com_gamedir # <<>>
              THEN Probe(r0, com_gamedir \o Slash \o path, fs)
              ELSE r0
        r2 == IF com_basedir # <<>> /\ game_names # NULL /\ game_names # <<>>
              THEN GameLoop(r1, game_names, 0, path, fs)
              ELSE r1
    IN  IF com_basedir # <<>>
        THEN Probe(r2, com_basedir \o Slash \o path, fs)
        ELSE r2

\* Resolve without the last step, the path as is.
ResolveNoFallback(path, fs) ==
    LET r1 == IF com_gamedir # <<>>
              THEN Probe(Entry, com_gamedir \o Slash \o path, fs)
              ELSE Entry
        r2 == IF com_basedir # <<>> /\ game_names # NULL /\ game_names # <<>>
              THEN GameLoop(r1, game_names, 0, path, fs)
              ELSE r1
    IN  IF com_basedir # <<>>
        THEN Probe(r2, com_basedir \o Slash \o path, fs)
        ELSE r2

\* the body of Open: mod directory, basedir + game name, basedir, path as is
Resolve(path, fs) ==
    LET r1 == IF com_gamedir # <<>>
              THEN Probe(Entry, com_gamedir \o Slash \o path, fs)
              ELSE Entry
        r2 == IF com_basedir # <<>> /\ game_names # NULL /\ game_names # <<>>
              THEN GameLoop(r1, game_names, 0, path, fs)
              ELSE r1
        r3 == IF com_basedir # <<>>
              THEN Probe(r2, com_basedir \o Slash \o path, fs)
              ELSE r2
    IN  Probe(r3, path, fs)

----------------------------------------------------------------------------
(* The calls *)

Free(st) == { a \in Addrs : st[a] = NoStream }
Live(st) == { a \in Addrs : st[a] # NoStream }

\* last: the call made (op), the handle it was made on (h), its arguments
\* (size for Read, offset and origin for Seek), the handle, count or
\* position it returned (ret), the bool Seek returned (ok), the bytes Read
\* put in the buffer (buf), and for Open the paths fopen was called on, in
\* order (probed), and the scan positions of the game-name loop (scan)
NoCall == [op |-> "none", h |-> 0, size |-> 0, offset |-> 0, origin |-> 0,
           ret |-> 0, ok |-> FALSE, buf |-> <<>>, probed |-> <<>>,
           scan |-> <<>>]

TypeOK ==
    /\ com_gamedir \in GameDirs
    /\ com_basedir \in BaseDirs
    /\ game_names \in GameLists
    /\ files \subseteq AllFiles
    /\ \A a \in Addrs : streams[a] = NoStream
                        \/ (streams[a].file \in AllFiles /\ streams[a].pos \in 0..MaxPos)
    /\ held \subseteq Addrs
    /\ paks \subseteq PakFiles

\* The paths Open looks at under the configuration: what it probes when it
\* finds nothing.  The environment acts on these; any other file stays as
\* the initial state has it.
Visible == { Resolve(LogicalPath, {}).probed[i] :
                i \in 1..Len(Resolve(LogicalPath, {}).probed) }

\* A deployment with a mod directory alone: Open looks under it and then at
\* the path as is; any of the two files may be present.
Init ==
    /\ com_gamedir = <<"m">>
    /\ com_basedir = <<>>
    /\ game_names = NULL
    /\ files \in SUBSET Visible
    /\ streams = [a \in Addrs |-> NoStream]
    /\ held = {}
    /\ paks = {}
    /\ last = NoCall

\* Any configuration of the engine, with any of the files present.
InitResolve ==
    /\ com_gamedir \in GameDirs
    /\ com_basedir \in BaseDirs
    /\ game_names \in GameLists
    /\ files \in SUBSET AllFiles
    /\ streams = [a \in Addrs |-> NoStream]
    /\ held = {}
    /\ paks = {}
    /\ last = NoCall

\* Rml::FileHandle Open(const Rml::String& path): every fopen that succeeded
\* holds a FILE object (malloc picks the addresses); the one returned is the
\* caller's handle, 0 when none is returned
Open ==
    LET r == Resolve(LogicalPath, files)
        n == Len(r.opened)
    IN  /\ n <= Cardinality(Free(streams))
        /\ \E at \in [1..n -> Free(streams)] :
              /\ \A i, j \in 1..n : i # j => at[i] # at[j]
              /\ streams' = [a \in Addrs |->
                               IF \E i \in 1..n : at[i] = a
                               THEN [file |-> r.opened[CHOOSE i \in 1..n : at[i] = a],
                                     pos |-> 0]
                               ELSE streams[a]]
              /\ LET h == IF r.ret = NULL THEN 0
                          ELSE at[CHOOSE i \in 1..n : r.opened[i] = r.ret]
                 IN  /\ held' = IF h = 0 THEN held ELSE held \cup {h}
                     /\ last' = [NoCall EXCEPT !.op = "Open", !.ret = h,
                                               !.probed = r.probed,
                                               !.scan = r.scan]
        /\ UNCHANGED <<paks, com_gamedir, com_basedir, game_names, files>>

\* void Close(Rml::FileHandle file)
Close(h) ==
    /\ h \in held
    /\ streams' = Fclose(streams, h)
    /\ held' = held \ {h}
    /\ last' = [NoCall EXCEPT !.op = "Close", !.h = h]
    /\ UNCHANGED <<paks, com_gamedir, com_basedir, game_names, files>>

\* size_t Read(void* buffer, size_t size, Rml::FileHandle file)
Read(h, size) ==
    /\ h \in held
    /\ LET r == Fread(streams[h], size)
       IN  /\ streams' = [streams EXCEPT ![h].pos = r.pos]
           /\ last' = [NoCall EXCEPT !.op = "Read", !.h = h, !.size = size,
                                     !.ret = r.n, !.buf = r.buf]
    /\ UNCHANGED <<paks, com_gamedir, com_basedir, game_names, files, held>>

\* bool Seek(Rml::FileHandle file, long offset, int origin)
Seek(h, offset, origin) ==
    /\ h \in held
    /\ LET r == Fseek(streams[h], offset, origin)
       IN  /\ r.pos <= MaxPos
           /\ streams' = [streams EXCEPT ![h].pos = r.pos]
           /\ last' = [NoCall EXCEPT !.op = "Seek", !.h = h, !.offset = offset,
                                     !.origin = origin, !.ok = (r.rc = 0)]
    /\ UNCHANGED <<paks, com_gamedir, com_basedir, game_names, files, held>>

\* Tell leaving the stream at its start, as a rewind would.
TellRewinds(h) ==
    /\ h \in held
    /\ streams' = [streams EXCEPT ![h].pos = 0]
    /\ last' = [NoCall EXCEPT !.op = "Tell", !.h = h, !.ret = Ftell(streams[h])]
    /\ UNCHANGED <<paks, com_gamedir, com_basedir, game_names, files, held>>

\* size_t Tell(Rml::FileHandle file)
Tell(h) ==
    /\ h \in held
    /\ last' = [NoCall EXCEPT !.op = "Tell", !.h = h, !.ret = Ftell(streams[h])]
    /\ UNCHANGED <<paks, com_gamedir, com_basedir, game_names, files, streams, held>>

\* size_t Length(Rml::FileHandle file): declared in the class, not defined
\* in quake_file_interface.cpp; as specified it returns the total size of
\* the asset the handle was opened on and moves nothing
Length(h) ==
    /\ h \in held
    /\ last' = [NoCall EXCEPT !.op = "Length", !.h = h,
                              !.ret = FileSize(streams[h].file)]
    /\ UNCHANGED <<paks, com_gamedir, com_basedir, game_names, files, streams, held>>

\* The environment: a file appears under one of the roots, or is unlinked
\* (an open stream keeps the bytes of an unlinked file).
CreateFile(p) ==
    /\ p \notin files
    /\ files' = files \cup {p}
    /\ last' = [NoCall EXCEPT !.op = "Create"]
    /\ UNCHANGED <<paks, com_gamedir, com_basedir, game_names, streams, held>>

RemoveFile(p) ==
    /\ p \in files
    /\ files' = files \ {p}
    /\ last' = [NoCall EXCEPT !.op = "Remove"]
    /\ UNCHANGED <<paks, com_gamedir, com_basedir, game_names, streams, held>>

Next ==
    \/ Open
    \/ \E h \in Addrs : Close(h)
    \/ \E h \in Addrs, size \in 0..MaxArg : Read(h, size)
    \/ \E h \in Addrs, offset \in (-MaxArg)..MaxArg, origin \in Origins :
          Seek(h, offset, origin)
    \/ \E h \in Addrs : Tell(h)
    \/ \E h \in Addrs : Length(h)
    \/ \E p \in Visible : CreateFile(p)
    \/ \E p \in Visible : RemoveFile(p)

Spec == Init /\ [][Next]_vars

\* Opening and closing under every configuration, on a changing filesystem.
NextResolve ==
    \/ Open
    \/ \E h \in Addrs : Close(h)
    \/ \E p \in Visible : CreateFile(p)
    \/ \E p \in Visible : RemoveFile(p)

SpecResolve == InitResolve /\ [][NextResolve]_vars

\* A base directory with a game directory under it, which may hold a pak
\* container with the asset in it, next to any of the loose files.
InitPak ==
    /\ com_gamedir \in GameDirs
    /\ com_basedir = <<"b">>
    /\ game_names \in { NULL, <<"g">> }
    /\ files \in SUBSET AllFiles
    /\ streams = [a \in Addrs |-> NoStream]
    /\ held = {}
    /\ paks \in SUBSET PakFiles
    /\ last = NoCall

SpecPak == InitPak /\ [][NextResolve]_vars

----------------------------------------------------------------------------
(* The search order as the specification words it *)

\* The game names of a semicolon-separated list: its non-empty segments.
RECURSIVE Split(_)
Split(s) ==
    IF \A i \in 1..Len(s) : s[i] # ";" THEN <<s>>
    ELSE LET i == CHOOSE k \in 1..Len(s) :
                     s[k] = ";" /\ \A j \in 1..(k - 1) : s[j] # ";"
         IN  <<SubSeq(s, 1, i - 1)>> \o Split(SubSeq(s, i + 1, Len(s)))

GameNames == IF game_names = NULL THEN <<>>
             ELSE SelectSeq(Split(game_names), LAMBDA g : g # <<>>)

\* (1) modDir/path  (2) basedir/game/path per game  (3) basedir/path  (4) path
Candidates(path) ==
    (IF com_gamedir # <<>> THEN <<com_gamedir \o Slash \o path>> ELSE <<>>)
    \o (IF com_basedir # <<>>
        THEN [i \in 1..Len(GameNames) |->
                com_basedir \o Slash \o GameNames[i] \o Slash \o path]
        ELSE <<>>)
    \o (IF com_basedir # <<>> THEN <<com_basedir \o Slash \o path>> ELSE <<>>)
    \o <<path>>

\* Index of the first candidate that exists, 0 when none does.
FirstExisting(c, fs) ==
    IF \A i \in 1..Len(c) : c[i] \notin fs THEN 0
    ELSE CHOOSE i \in 1..Len(c) : c[i] \in fs /\ \A j \in 1..(i - 1) : c[j] \notin fs

\* The bytes behind a handle, NULL behind the not-found value 0.
Content(h) == IF h = 0 THEN NULL ELSE FileData(streams[h].file)

----------------------------------------------------------------------------
(* C1 - C4: Open *)

C2_Override ==
    last.op = "Open" =>
        LET c == Candidates(LogicalPath)
            here == { i \in 1..Len(c) : c[i] \in files }
            modp == com_gamedir \o Slash \o LogicalPath
            basep == com_basedir \o Slash \o LogicalPath
        IN  /\ here # {} =>
                /\ last.ret # 0
                /\ \E i \in here : /\ Content(last.ret) = FileData(c[i])
                                   /\ \A j \in here : i <= j
            /\ (com_gamedir # <<>> /\ modp \in files) =>
                   Content(last.ret) = FileData(modp)
            /\ (com_basedir # <<>> /\ { c[i] : i \in here } = {basep}) =>
                   Content(last.ret) = FileData(basep)
            /\ here = {} => last.ret = 0

\* The scenario: a handle on the mod copy is still held, the mod copy has
\* been removed since, and the repeated Open returned the basedir copy.
C2_Witness ==
    /\ last.op = "Open" /\ last.ret # 0
    /\ com_gamedir # <<>> /\ com_basedir # <<>>
    /\ (com_gamedir \o Slash \o LogicalPath) \notin files
    /\ \E a \in held : streams[a].file = com_gamedir \o Slash \o LogicalPath
    /\ streams[last.ret].file = com_basedir \o Slash \o LogicalPath
    /\ Content(last.ret) = <<"B", "S">>

\* C3: Open returns 0 exactly when no candidate exists: a handle whenever
\* the path exists under some root, 0 (and no error) when under none.
C3_NotFoundIff ==
    last.op = "Open" =>
        (last.ret = 0 <=>
            \A i \in 1..Len(Candidates(LogicalPath)) :
                Candidates(LogicalPath)[i] \notin files)

\* Both outcomes: not-found under a full configuration with every candidate
\* probed, while files that are no candidate exist.
C3_Witness ==
    /\ last.op = "Open" /\ last.ret = 0
    /\ com_gamedir # <<>> /\ com_basedir # <<>>
    /\ Len(last.probed) >= 4
    /\ files # {}

\* C4: Open leaks no stream: a failed Open leaves the table of open streams
\* as it was, a successful one adds exactly the stream it returns, at an
\* address that was free, however many candidates failed before it.
C4_NoLeak ==
    [][last'.op = "Open" =>
          IF last'.ret = 0
          THEN streams' = streams
          ELSE /\ last'.ret \notin Live(streams)
               /\ Live(streams') = Live(streams) \cup {last'.ret}
               /\ \A a \in Live(streams) : streams'[a] = streams[a]]_vars

\* A failed Open that probed three candidates or more while a stream opened
\* earlier is still held.
C4_Witness ==
    /\ last.op = "Open" /\ last.ret = 0
    /\ Len(last.probed) >= 3
    /\ held # {} /\ Live(streams) = held

----------------------------------------------------------------------------
(* C5 - C10: the handle *)

\* The position a Seek asks for, in conventional seek semantics.
Target(s, offset, origin) ==
    CASE origin = SEEK_SET -> offset
      [] origin = SEEK_CUR -> Ftell(s) + offset
      [] origin = SEEK_END -> FileSize(s.file) + offset


\* C5: a Seek whose target lies below 0 or above the length of the file
\* returns failure and leaves the value Tell reports as it was.
C5_SeekOutsideFails ==
    [][(/\ last'.op = "Seek"
        /\ last'.origin \in Origins
        /\ Target(streams[last'.h], last'.offset, last'.origin)
               \notin 0..FileSize(streams[last'.h].file))
       => /\ last'.ok = FALSE
          /\ Ftell(streams'[last'.h]) = Ftell(streams[last'.h])]_vars

\* C6: the position of every open handle is within [0, length].
C6_PosInRange ==
    \A h \in held : /\ 0 <= Ftell(streams[h])
                    /\ Ftell(streams[h]) <= FileSize(streams[h].file)

\* C7: a Seek whose target lies within [0, length] succeeds, Tell then
\* reports the target, and a Read that follows returns the bytes of the file
\* from that offset on.
C7_SeekInside ==
    [][/\ (/\ last'.op = "Seek"
           /\ last'.origin \in Origins
           /\ Target(streams[last'.h], last'.offset, last'.origin)
                  \in 0..FileSize(streams[last'.h].file))
          => /\ last'.ok = TRUE
             /\ Ftell(streams'[last'.h])
                    = Target(streams[last'.h], last'.offset, last'.origin)
       /\ (/\ last.op = "Seek" /\ last.ok = TRUE
           /\ Ftell(streams[last.h]) <= FileSize(streams[last.h].file)
           /\ last'.op = "Read" /\ last'.h = last.h)
          => LET from == Ftell(streams[last.h])
                 to == Min(from + last'.size, FileSize(streams[last.h].file))
             IN  /\ last'.ret = to - from
                 /\ last'.buf = SubSeq(Content(last.h), from + 1, to)]_vars

\* A Seek that succeeded and left the cursor strictly inside the file.
C7_Witness ==
    /\ last.op = "Seek" /\ last.ok = TRUE
    /\ Ftell(streams[last.h]) > 0
    /\ Ftell(streams[last.h]) < FileSize(streams[last.h].file)

\* C8: Read at position pos transfers min(size, length - pos) bytes, the
\* bytes of the file at [pos, pos + count), returns that count and advances
\* the position by it, never past the length; a Read that asks for bytes
\* returns 0 exactly when the position is the length.
C8_ReadCount ==
    [][last'.op = "Read" =>
          LET h == last'.h
              pos == Ftell(streams[h])
              count == Min(last'.size, FileSize(streams[h].file) - pos)
          IN  /\ last'.ret = count
              /\ last'.buf = SubSeq(Content(h), pos + 1, pos + count)
              /\ Ftell(streams'[h]) = pos + count
              /\ Ftell(streams'[h]) <= FileSize(streams[h].file)
              /\ last'.size > 0 =>
                    (last'.ret = 0 <=> pos = FileSize(streams[h].file))]_vars

\* C9: Close releases the stream of the handle closed and no other, a
\* stream is released only by Close and acquired only by the Open that
\* returns it, and the open streams are exactly the handles not yet closed:
\* once every Open is paired with its Close no stream is open.
C9_CloseReleasesOnce ==
    /\ [](Live(streams) = held)
    /\ [][/\ last'.op = "Close" =>
               /\ last'.h \in Live(streams)
               /\ Live(streams') = Live(streams) \ {last'.h}
          /\ Live(streams') # Live(streams) =>
               \/ last'.op = "Close"
               \/ /\ last'.op = "Open"
                  /\ Live(streams') = Live(streams) \cup {last'.ret}]_vars

\* Every handle has been closed, the last Close released the last stream.
C9_Witness ==
    /\ last.op = "Close"
    /\ held = {}
    /\ Live(streams) = {}

\* C10: every Open returns a stream of its own, at position 0 and at an
\* address no live handle has, and Read, Seek, Tell and Close on one handle
\* leave the file, position and open status of every other handle as they
\* were.
C10_NoAliasing ==
    [][/\ last'.op \in {"Read", "Seek", "Tell", "Close"} =>
             \A a \in Addrs \ {last'.h} : streams'[a] = streams[a]
       /\ (last'.op = "Open" /\ last'.ret # 0) =>
             /\ last'.ret \notin Live(streams)
             /\ Ftell(streams'[last'.ret]) = 0
             /\ \A a \in Addrs \ {last'.ret} : streams'[a] = streams[a]]_vars

\* Two handles on the same file with different positions, the last call a
\* Read or Seek on one of them.
C10_Witness ==
    /\ last.op \in {"Read", "Seek"}
    /\ \E a \in held \ {last.h} :
          /\ streams[a].file = streams[last.h].file
          /\ Ftell(streams[a]) # Ftell(streams[last.h])
          /\ Ftell(streams[a]) > 0

----------------------------------------------------------------------------
(* C11 - C16 *)

C12_PakFound ==
    (last.op = "Open" /\ paks # {}) => last.ret # 0

Segments == IF game_names = NULL THEN <<>> ELSE Split(game_names)

\* The probes of the game-name step in the last Open: what it probed after
\* the mod directory that is neither basedir/path nor the path as is.
GameProbes ==
    LET t == IF com_gamedir # <<>> THEN Tail(last.probed) ELSE last.probed
    IN  SelectSeq(t, LAMBDA p : /\ p # com_basedir \o Slash \o LogicalPath
                                /\ p # LogicalPath)

\* C14: when the mod directory did not open, the game-name step probes
\* basedir/segment/path for the non-empty segments of the list, once each,
\* left to right, up to and including the first that opens; an empty
\* segment is never probed; and without a base directory the step probes
\* nothing, whatever the list.
C14_GameStep ==
    last.op = "Open" =>
        LET e == [i \in 1..Len(GameNames) |->
                    com_basedir \o Slash \o GameNames[i] \o Slash \o LogicalPath]
            k == FirstExisting(e, files)
            modOpened == /\ com_gamedir # <<>>
                         /\ Exists(files, com_gamedir \o Slash \o LogicalPath)
        IN  /\ com_basedir = <<>> => GameProbes = <<>>
            /\ modOpened => GameProbes = <<>>
            /\ (com_basedir # <<>> /\ ~modOpened) =>
                  GameProbes = IF k = 0 THEN e ELSE SubSeq(e, 1, k)
            /\ \A i \in 1..Len(GameProbes) :
                  GameProbes[i] # com_basedir \o Slash \o Slash \o LogicalPath

\* Under the list "h;;g;" with h absent and g present: h was probed, then
\* g, which opened, and nothing for the empty segments.
C14_Witness ==
    /\ last.op = "Open"
    /\ game_names = <<"h", ";", ";", "g", ";">>
    /\ Len(GameProbes) = 2
    /\ last.ret # 0
    /\ streams[last.ret].file = <<"b", "/", "g", "/", "x">>

\* C15: the game-name loop of an Open runs at most once per segment of the
\* list, each iteration starts at a scan position inside the list and
\* strictly beyond the one before, and Open probes no more paths than it
\* has candidates.
C15_LoopBounded ==
    last.op = "Open" =>
        /\ Len(last.scan) <= Len(Segments)
        /\ \A i \in 1..Len(last.scan) :
              /\ last.scan[i] \in 0..(Len(game_names) - 1)
              /\ i > 1 => last.scan[i] > last.scan[i - 1]
        /\ Len(last.probed) <= Len(Candidates(LogicalPath))

\* An Open that found nothing under the list "h;;g;": its loop ran three
\* times, for h, for the empty segment and for g.
C15_Witness ==
    /\ last.op = "Open"
    /\ last.ret = 0
    /\ game_names = <<"h", ";", ";", "g", ";">>
    /\ last.scan = <<0, 2, 3>>

\* C16: Tell returns the position of the handle's stream and changes
\* neither a stream nor the set of handles nor the files, and the Read that
\* follows a Tell on the same handle starts at the position Tell reported,
\* as it would have without the Tell.
C16_TellPure ==
    [][/\ last'.op = "Tell" =>
             /\ last'.ret = streams[last'.h].pos
             /\ streams' = streams
             /\ held' = held
             /\ files' = files
       /\ (last.op = "Tell" /\ last'.op = "Read" /\ last'.h = last.h) =>
             LET from == last.ret
                 to == Min(from + last'.size, FileSize(streams[last.h].file))
             IN  /\ last'.ret = Max(0, to - from)
                 /\ last'.buf = SubSeq(Content(last.h), from + 1, to)
                 /\ streams'[last'.h].pos = from + last'.ret]_vars

\* A Tell that reported a position other than the start, on a handle whose
\* stream was moved before.
C16_Witness ==
    /\ last.op = "Tell"
    /\ last.ret > 0
    /\ last.ret = Ftell(streams[last.h])

====
